---------------------------- MODULE Spec2Model ----------------------------
(***************************************************************************)
(* Model of the resume ingestion service (ats-python-main/app).            *)
(*                                                                         *)
(* The subsystems are modelled each with its own specification:            *)
(*   SpecRetry : EnhancedResumeProcessor.process_resume for one file,      *)
(*               i.e. FileValidator.validate_file followed by              *)
(*               RetryProcessor.process_with_retry.                        *)
(*   Spec      : the in-memory job registry bulk_processing_jobs of        *)
(*               resume_controller.py with its background workers,         *)
(*               cancellation endpoints and status readers.                *)
(*   SpecPool  : one bulk submission and its worker pool alone.            *)
(*   SpecInline: the inline loop of bulk_parse_resumes with its batch save *)
(*               and candidate creation.                                   *)
(*   SpecContact, SpecUniq, SpecValidation : one call of                   *)
(*               extract_contact_info, of _process_single_file_from_data   *)
(*               from the uniqueness check on, and of                      *)
(*               _validate_parsed_data, on every input of the model.       *)
(*   SpecUniqOrder : the uniqueness check against histories of several     *)
(*               readable records.                                         *)
(*   SpecDoc   : one call of FileProcessor._process_doc.                   *)
(*   SpecQueue : QueueService and AsyncResumeProcessor on the Redis queue. *)
(* Every handler is modelled as an operation that can be invoked; which    *)
(* of several handlers registered for one route the HTTP layer picks is    *)
(* not modelled.                                                           *)
(* An action is one atomic segment of a coroutine, i.e. the code between   *)
(* two await points of the asyncio event loop.                             *)
(***************************************************************************)
EXTENDS Integers, Sequences, FiniteSets, TLC

VARIABLES
    \* ---- process_resume / process_with_retry (one file) ----
    file,           \* the uploaded file (abstract content and name)
    rpc,            \* position in process_resume
    attempt_num,    \* loop variable of process_with_retry
    last_error,     \* class of the last ResumeParsingError caught
    attempts,       \* the list of RetryAttempt built by process_with_retry
    last_outcome,   \* what the latest attempt's processing did
    calls,          \* number of invocations of processing_func
    retry_result,   \* the dict returned by process_with_retry
    result,         \* the ProcessingResult returned by process_resume
    \* ---- bulk job registry ----
    registry,       \* bulk_processing_jobs : job_id -> job dict
    bulk,           \* the background task of bulk_parse_resumes
    reup,           \* the background task process_reupload_files
    clock,          \* logical creation stamp (created_at)
    \* ---- single calls of the per-record functions ----
    contact,        \* one call of ContactExtractor.extract_contact_info
    uniq,           \* one file in _process_single_file_from_data, from the
                    \* uniqueness check on
    validation,     \* one call of _validate_parsed_data
    doc,            \* one call of FileProcessor._process_doc
    \* ---- Redis job queue ----
    queue           \* resume_processing_queue, the job_status hashes, the
                    \* submissions in progress and the background processor

retryVars == <<file, rpc, attempt_num, last_error, attempts, last_outcome,
               calls, retry_result, result>>
bulkVars  == <<registry, bulk, reup, clock>>
callVars  == <<contact, uniq, validation, doc, queue>>
vars      == <<file, rpc, attempt_num, last_error, attempts, last_outcome,
               calls, retry_result, result, registry, bulk, reup, clock,
               contact, uniq, validation, doc, queue>>

(***************************************************************************)
(* Files.  A file is its declared name and the features of its content     *)
(* that FileValidator looks at.                                            *)
(***************************************************************************)
SizeLimit == 52428800       \* 50 * 1024 * 1024
MinDocSize == 512           \* minimum OLE2 file size
MinTextLen == 10            \* minimum length of stripped text

Extensions == {".pdf", ".docx", ".doc", ".txt", ".rtf", ".png", ".json"}
Magics == {"%PDF", "PK", "OLE2", "{\\rtf", "other"}
Sizes == {0, 30, 600, SizeLimit + 1}

\* ext        : os.path.splitext(filename)[1].lower()
\* meta_name  : 'metadata' occurs in filename.lower()
\* size       : len(file_content)
\* magic      : the signature file_content starts with
\* marker     : the content holds the marker the validator of the declared
\*              extension searches for (%%EOF, [Content_Types].xml, "}")
\* null_run   : four NUL bytes occur in the first 1000 bytes
\* short_text : len(file_content.strip()) < 10
AllFiles ==
    [ext : Extensions, meta_name : BOOLEAN, size : Sizes, magic : Magics,
     marker : BOOLEAN, null_run : BOOLEAN, short_text : BOOLEAN]

\* Combinations a byte string can have; features no validator of the
\* declared extension reads are fixed.
WellFormed(f) ==
    /\ f.size = 0 => (f.magic = "other" /\ ~f.marker /\ ~f.null_run /\ f.short_text)
    /\ f.ext \notin {".pdf", ".docx", ".rtf"} => ~f.marker
    /\ f.ext # ".pdf" => ~f.null_run
    /\ f.ext # ".txt" => (f.short_text <=> f.size < MinTextLen)

Files == {f \in AllFiles : WellFormed(f)}

metadata_extensions == {".json", ".metadata.json", ".meta"}
supported_types == {".pdf", ".docx", ".doc", ".txt", ".rtf"}

is_metadata_file(f) == f.ext \in metadata_extensions \/ f.meta_name

detect_file_type(f) ==
    CASE f.magic = "%PDF"   -> ".pdf"
      [] f.magic = "PK"     -> ".docx"
      [] f.magic = "OLE2"   -> ".doc"
      [] f.magic = "{\\rtf" -> ".rtf"
      [] OTHER              -> "None"

\* Each validator returns is_corrupted.
validate_pdf(f)  == f.magic # "%PDF" \/ ~f.marker \/ f.null_run
validate_docx(f) == f.magic # "PK" \/ ~f.marker
validate_doc(f)  == f.magic # "OLE2" \/ f.size < MinDocSize
validate_txt(f)  == f.short_text
validate_rtf(f)  == f.magic # "{\\rtf" \/ ~f.marker

validation_func(f) ==
    CASE f.ext = ".pdf"  -> validate_pdf(f)
      [] f.ext = ".docx" -> validate_docx(f)
      [] f.ext = ".doc"  -> validate_doc(f)
      [] f.ext = ".txt"  -> validate_txt(f)
      [] f.ext = ".rtf"  -> validate_rtf(f)

FileValidationResult(valid, meta, corrupted, msg) ==
    [is_valid |-> valid, is_metadata |-> meta, is_corrupted |-> corrupted,
     error_message |-> msg]

\* A variant of validate_file that looks at the size before the name.
validate_file_mut(f) ==
    IF f.size = 0
      THEN FileValidationResult(FALSE, FALSE, TRUE, "empty")
    ELSE IF f.size > SizeLimit
      THEN FileValidationResult(FALSE, FALSE, FALSE, "too_large")
    ELSE IF is_metadata_file(f)
      THEN FileValidationResult(FALSE, TRUE, FALSE, "metadata")
    ELSE IF f.ext \notin supported_types
      THEN FileValidationResult(FALSE, FALSE, FALSE, "unsupported")
    ELSE IF validation_func(f)
      THEN FileValidationResult(FALSE, FALSE, TRUE, "corrupted")
    ELSE FileValidationResult(TRUE, FALSE, FALSE, "none")

validate_file(f) ==
    IF is_metadata_file(f)
      THEN FileValidationResult(FALSE, TRUE, FALSE, "metadata")
    ELSE IF f.size = 0
      THEN FileValidationResult(FALSE, FALSE, TRUE, "empty")
    ELSE IF f.size > SizeLimit
      THEN FileValidationResult(FALSE, FALSE, FALSE, "too_large")
    ELSE IF f.ext \notin supported_types
      THEN FileValidationResult(FALSE, FALSE, FALSE, "unsupported")
    ELSE IF validation_func(f)
      THEN FileValidationResult(FALSE, FALSE, TRUE, "corrupted")
    ELSE FileValidationResult(TRUE, FALSE, FALSE, "none")

\* The error_type of the ResumeParsingError built for a rejected file.
create_validation_error(v) ==
    IF v.is_metadata THEN "file_type_unsupported"
    ELSE IF v.is_corrupted THEN "file_corrupted"
    ELSE "file_type_unsupported"

(***************************************************************************)
(* RetryProcessor (services/retry_processor.py)                            *)
(***************************************************************************)
max_retries == 3

STANDARD == "standard"
ENHANCED_PREPROCESSING == "enhanced_preprocessing"
FALLBACK_EXTRACTION == "fallback_extraction"
MANUAL_EXTRACTION == "manual_extraction"

\* Exception classes are named by their class name; "None" is Python's None.
TaxonomyErrors == {"ContactInfoMissingError", "AIParsingError", "TextExtractionError"}

\* A variant of strategy_map whose AI-parsing list ends like the default one.
strategy_map_mut ==
    [ContactInfoMissingError |->
        <<ENHANCED_PREPROCESSING, FALLBACK_EXTRACTION, MANUAL_EXTRACTION>>,
     AIParsingError |->
        <<ENHANCED_PREPROCESSING, FALLBACK_EXTRACTION, MANUAL_EXTRACTION>>]

strategy_map ==
    [ContactInfoMissingError |->
        <<ENHANCED_PREPROCESSING, FALLBACK_EXTRACTION, MANUAL_EXTRACTION>>,
     AIParsingError |->
        <<ENHANCED_PREPROCESSING, FALLBACK_EXTRACTION, STANDARD>>]

fallback_strategies ==
    <<ENHANCED_PREPROCESSING, FALLBACK_EXTRACTION, MANUAL_EXTRACTION>>

\* A variant of the lookup below that reads one list element further.
get_strategy_for_attempt_mut(n, err) ==
    IF n = 0 THEN STANDARD
    ELSE IF err \in DOMAIN strategy_map /\ n < Len(strategy_map[err])
      THEN strategy_map[err][n + 1]
    ELSE IF n < Len(fallback_strategies)
      THEN fallback_strategies[n + 1]
    ELSE STANDARD

\* _get_strategy_for_attempt; strategies[attempt_num - 1] of a Python list is
\* element attempt_num of the sequence.
get_strategy_for_attempt(n, err) ==
    IF n = 0 THEN STANDARD
    ELSE IF err \in DOMAIN strategy_map /\ n - 1 < Len(strategy_map[err])
      THEN strategy_map[err][n]
    ELSE IF n - 1 < Len(fallback_strategies)
      THEN fallback_strategies[n]
    ELSE STANDARD

\* What one run of _process_resume_core does: it returns parsed data, raises
\* one of the taxonomy errors, or one of its steps raises another exception.
CoreOutcomes ==
    {"success", "TextExtractionError", "AIParsingError",
     "ContactInfoMissingError", "CoreException"}

\* The exception class that leaves _process_resume_core ("None": it returned).
\* Its last handler turns every non-taxonomy exception into AIParsingError.
process_resume_core(o) ==
    CASE o = "success"       -> "None"
      [] o = "CoreException" -> "AIParsingError"
      [] OTHER               -> o

\* The strategies other than STANDARD call FileProcessor.process_file
\* themselves before processing_func; it raises plain Exception on failure.
AttemptOutcomes(strategy) ==
    IF strategy = STANDARD THEN CoreOutcomes
    ELSE CoreOutcomes \cup {"WrapperException"}

RetryAttempt(n, strategy, ok, err) ==
    [attempt_number |-> n, strategy |-> strategy, success |-> ok, error |-> err]

\* A variant of the loop test that gives up one attempt earlier.
is_last_attempt_mut(n) == n >= max_retries - 1

\* The loop test "if attempt_num >= self.max_retries" after a failed attempt.
is_last_attempt(n) == n >= max_retries

NoRetryResult == [success |-> FALSE, error |-> "None", attempts |-> <<>>]
NoResult ==
    [success |-> FALSE, error |-> "None", has_attempts |-> FALSE,
     attempts |-> <<>>, parsed_data |-> FALSE]

\* A variant that only turns metadata files away.
rejects_mut(v) == v.is_metadata

\* The test "if not validation_result.is_valid" of process_resume.
rejects(v) == ~v.is_valid

\* A variant in which fallback extraction calls processing_func again after
\* a failed call.
invocations_mut(strategy, o) ==
    IF o = "WrapperException" THEN 0
    ELSE IF strategy = FALLBACK_EXTRACTION /\ o # "success" THEN 2
    ELSE 1

\* Number of calls of processing_func one attempt makes: every strategy calls
\* it once, unless its own extraction step raised first.
invocations(strategy, o) == IF o = "WrapperException" THEN 0 ELSE 1

\* process_resume, step 1: validation; a rejected file returns at once and
\* leaves ProcessingResult.attempts at its default None.
Validate ==
    /\ rpc = "validate"
    /\ LET v == validate_file(file) IN
         IF rejects(v)
           THEN /\ result' = [success |-> FALSE,
                              error |-> create_validation_error(v),
                              has_attempts |-> FALSE, attempts |-> <<>>,
                              parsed_data |-> FALSE]
                /\ rpc' = "done"
           ELSE /\ rpc' = "attempt"
                /\ UNCHANGED result
    /\ UNCHANGED <<file, attempt_num, last_error, attempts, last_outcome,
                   calls, retry_result>>
    /\ UNCHANGED <<bulkVars, callVars>>

\* One iteration of the loop of process_with_retry, up to its return or to
\* the await of asyncio.sleep.
Attempt ==
    /\ rpc = "attempt"
    /\ LET strategy == get_strategy_for_attempt(attempt_num, last_error) IN
       \E o \in AttemptOutcomes(strategy) :
         /\ last_outcome' = o
         /\ calls' = calls + invocations(strategy, o)
         /\ IF o = "WrapperException"
              THEN \* except Exception: no attempt is recorded
                   /\ retry_result' = [success |-> FALSE, error |-> "Exception",
                                       attempts |-> attempts]
                   /\ rpc' = "returned"
                   /\ UNCHANGED <<attempts, last_error>>
              ELSE
                LET raised == process_resume_core(o) IN
                /\ IF raised = "None"
                     THEN LET log == Append(attempts,
                                 RetryAttempt(attempt_num + 1, strategy, TRUE, "None")) IN
                          /\ attempts' = log
                          /\ retry_result' = [success |-> TRUE, error |-> "None",
                                              attempts |-> log]
                          /\ rpc' = "returned"
                          /\ UNCHANGED last_error
                     ELSE LET log == Append(attempts,
                                 RetryAttempt(attempt_num + 1, strategy, FALSE, raised)) IN
                          /\ attempts' = log
                          /\ last_error' = raised
                          /\ IF is_last_attempt(attempt_num)
                               THEN /\ retry_result' = [success |-> FALSE,
                                                        error |-> raised,
                                                        attempts |-> log]
                                    /\ rpc' = "returned"
                               ELSE /\ rpc' = "sleep"
                                    /\ UNCHANGED retry_result
    /\ UNCHANGED <<file, attempt_num, result>>
    /\ UNCHANGED <<bulkVars, callVars>>

\* asyncio.sleep(self._calculate_delay(attempt_num)) returns and the for
\* loop takes the next attempt_num of range(max_retries + 1).
Backoff ==
    /\ rpc = "sleep"
    /\ attempt_num + 1 < max_retries + 1
    /\ attempt_num' = attempt_num + 1
    /\ rpc' = "attempt"
    /\ UNCHANGED <<file, last_error, attempts, last_outcome, calls,
                   retry_result, result>>
    /\ UNCHANGED <<bulkVars, callVars>>

\* process_resume, step 4: the ProcessingResult built from retry_result.
Finish ==
    /\ rpc = "returned"
    /\ result' = [success |-> retry_result.success,
                  error |-> retry_result.error,
                  has_attempts |-> TRUE,
                  attempts |-> retry_result.attempts,
                  parsed_data |-> retry_result.success]
    /\ rpc' = "done"
    /\ UNCHANGED <<file, attempt_num, last_error, attempts, last_outcome,
                   calls, retry_result>>
    /\ UNCHANGED <<bulkVars, callVars>>

(***************************************************************************)
(* The job registry bulk_processing_jobs (controllers/resume_controller.py)*)
(*                                                                         *)
(* A job dict is a record; a key a dict does not hold has the default the  *)
(* readers pass to dict.get.  results holds the "status" of each per-file  *)
(* result.  progress is kept in hundredths of a percent.                   *)
(*                                                                         *)
(* Operations: bulk_parse_resumes registers a job under a fresh uuid and   *)
(* starts a background worker; re_upload_failed_resumes registers a job    *)
(* under the job id the caller sends and starts process_reupload_files;    *)
(* cancel_job and cancel_all_jobs mark jobs cancelled.                     *)
(***************************************************************************)
MaxFiles == 3      \* most files of one submission
PoolSize == 2      \* the configured value of MAX_CONCURRENT_FILES
MaxIds == 2        \* most failed_resume_ids of one re-upload

MAX_CONCURRENT_FILES == PoolSize

JobIds == {"a", "b"}

NoJob ==
    [present |-> FALSE, status |-> "none", created_at |-> 0,
     total_files |-> 0, processed_files |-> 0, successful_files |-> 0,
     failed_files |-> 0, duplicate_files |-> 0, progress |-> 0,
     progress_percentage |-> 0, results |-> <<>>, error |-> FALSE]

\* The dict bulk_parse_resumes stores for a new job.
NewBulkJob(now) ==
    [present |-> TRUE, status |-> "processing", created_at |-> now,
     total_files |-> 0, processed_files |-> 0, successful_files |-> 0,
     failed_files |-> 0, duplicate_files |-> 0, progress |-> 0,
     progress_percentage |-> 0, results |-> <<>>, error |-> FALSE]

\* The dict job_data re_upload_failed_resumes stores.
NewReuploadJob(now, n_ids) ==
    [present |-> TRUE, status |-> "processing", created_at |-> now,
     total_files |-> n_ids, processed_files |-> 0, successful_files |-> 0,
     failed_files |-> 0, duplicate_files |-> 0, progress |-> 0,
     progress_percentage |-> 0, results |-> <<>>, error |-> FALSE]

Max(a, b) == IF a >= b THEN a ELSE b

\* round(x / y * 100, 2) in hundredths of a percent.
progress_percentage_of(x, y) == (2 * x * 10000 + y) \div (2 * y)

\* int(x / y * 100)
int_percentage_of(x, y) == (x * 100) \div y

NoBulk ==
    [kind |-> "none", job_id |-> "a", pc |-> "idle", n |-> 0,
     files |-> [k \in 1..MaxFiles |-> "none"],
     steps |-> [k \in 1..MaxFiles |-> {}], sem |-> 0,
     i |-> 0, results |-> <<>>, successful |-> 0, failed |-> 0,
     duplicate |-> 0, batch |-> 0]

NoReup ==
    [pc |-> "idle", job_id |-> "a", n |-> 0, i |-> 0, results |-> <<>>,
     successful |-> 0, failed |-> 0]

\* "if bulk_job_id in bulk_processing_jobs: bulk_processing_jobs[id].update(u)"
\* where job is the updated dict.
UpdateJob(reg, id, job) ==
    IF reg[id].present THEN [reg EXCEPT ![id] = job] ELSE reg

\* ---------------------------------------------------------------------
\* bulk_parse_resumes: the job is registered before the request is
\* validated, then the background worker is created.  An empty request
\* (empty = TRUE) is refused after the job was registered.
\* kind "ultra" is _background_process_bulk_ultra_fast, the worker the
\* handler starts; kind "seq" is _background_process_bulk, the sequential
\* worker of the same job dict; kind "inline" is the handler's own loop,
\* taken when the task cannot be created.  The inline loop collects and
\* processes the files as the sequential worker does.
\* ---------------------------------------------------------------------
bulk_parse_resumes(id, kind, empty) ==
    /\ bulk.pc = "idle"
    /\ ~registry[id].present
    /\ registry' = [registry EXCEPT ![id] = NewBulkJob(clock)]
    /\ clock' = clock + 1
    /\ bulk' = IF empty
                 THEN [NoBulk EXCEPT !.job_id = id, !.pc = "refused"]
                 ELSE [NoBulk EXCEPT !.kind = kind, !.job_id = id, !.pc = "collect"]
    /\ UNCHANGED reup
    /\ UNCHANGED <<retryVars, callVars>>

\* The final registry update of _background_process_bulk_ultra_fast.
UltraFinal(reg, id, n, ok, bad) ==
    UpdateJob(reg, id,
        [reg[id] EXCEPT !.status = "completed", !.total_files = n,
                    !.successful_files = ok, !.failed_files = bad,
                    !.progress = 10000])

\* The except handler of _background_process_bulk_ultra_fast.
UltraFailed(reg, id) ==
    UpdateJob(reg, id, [reg[id] EXCEPT !.status = "failed", !.error = TRUE])

\* A variant that also admits a caller when the value is zero.
semaphore_free_mut(value) == value >= 0

\* asyncio.Semaphore: acquire returns at once while the value is positive.
semaphore_free(value) == value > 0

\* _stream_files_ultra_fast returns n files (archives expanded), or raises
\* when an archive cannot be read.  The tasks are created and gathered; with
\* no file the gather is done at once and the final update follows.
UltraCollect(n, raises) ==
    /\ bulk.kind = "ultra" /\ bulk.pc = "collect"
    /\ IF raises
         THEN /\ registry' = UltraFailed(registry, bulk.job_id)
              /\ bulk' = [bulk EXCEPT !.pc = "done"]
         ELSE IF n = 0
         THEN /\ registry' = UltraFinal(registry, bulk.job_id, 0, 0, 0)
              /\ bulk' = [bulk EXCEPT !.pc = "done"]
         ELSE /\ bulk' = [bulk EXCEPT !.pc = "gather", !.n = n,
                            !.sem = MAX_CONCURRENT_FILES,
                            !.files = [k \in 1..MaxFiles |->
                                         IF k <= n THEN "waiting" ELSE "none"]]
              /\ UNCHANGED registry
    /\ UNCHANGED <<reup, clock>>
    /\ UNCHANGED <<retryVars, callVars>>

\* process_single_file_with_semaphore: "async with semaphore" is entered and
\* _process_single_file_ultra_fast starts for file k with its first step,
\* process_file.  steps[k] collects the pipeline steps run for file k.
UltraAcquire(k) ==
    /\ bulk.kind = "ultra" /\ bulk.pc = "gather"
    /\ bulk.files[k] = "waiting"
    /\ semaphore_free(bulk.sem)
    /\ bulk' = [bulk EXCEPT !.files[k] = "running", !.sem = bulk.sem - 1,
                            !.steps[k] = {"text_extraction"}]
    /\ UNCHANGED <<registry, reup, clock>>
    /\ UNCHANGED <<retryVars, callVars>>

\* _process_single_file_ultra_fast returns for file k and the semaphore is
\* released.  It returns status "failed" for a file without text, for an
\* empty parse and for every exception.
UltraFinish(k, status) ==
    /\ bulk.kind = "ultra" /\ bulk.pc = "gather"
    /\ bulk.files[k] = "running"
    /\ bulk' = [bulk EXCEPT !.files[k] = status, !.sem = bulk.sem + 1,
                            !.steps[k] = IF status = "success"
                                           THEN @ \cup {"ai_parsing", "embedding"}
                                           ELSE @]
    /\ UNCHANGED <<registry, reup, clock>>
    /\ UNCHANGED <<retryVars, callVars>>

UltraSuccessful == Cardinality({k \in 1..bulk.n : bulk.files[k] = "success"})
UltraFailedCount == Cardinality({k \in 1..bulk.n : bulk.files[k] # "success"})

\* asyncio.gather returns: results are counted; with successful results the
\* batch save is awaited, otherwise the final update follows at once.
UltraGathered ==
    /\ bulk.kind = "ultra" /\ bulk.pc = "gather"
    /\ \A k \in 1..bulk.n : bulk.files[k] \in {"success", "failed"}
    /\ IF UltraSuccessful > 0
         THEN /\ bulk' = [bulk EXCEPT !.pc = "saving",
                            !.successful = UltraSuccessful,
                            !.failed = UltraFailedCount]
              /\ UNCHANGED registry
         ELSE /\ bulk' = [bulk EXCEPT !.pc = "done",
                            !.successful = UltraSuccessful,
                            !.failed = UltraFailedCount]
              /\ registry' = UltraFinal(registry, bulk.job_id, bulk.n,
                                        UltraSuccessful, UltraFailedCount)
    /\ UNCHANGED <<reup, clock>>
    /\ UNCHANGED <<retryVars, callVars>>

\* save_batch_resume_data_ultra_fast returns or raises.
UltraSaved(raises) ==
    /\ bulk.kind = "ultra" /\ bulk.pc = "saving"
    /\ registry' = IF raises
                     THEN UltraFailed(registry, bulk.job_id)
                     ELSE UltraFinal(registry, bulk.job_id, bulk.n,
                                     bulk.successful, bulk.failed)
    /\ bulk' = [bulk EXCEPT !.pc = "done"]
    /\ UNCHANGED <<reup, clock>>
    /\ UNCHANGED <<retryVars, callVars>>


\* ---------------------------------------------------------------------
\* _background_process_bulk
\* ---------------------------------------------------------------------
\* The loop test "bulk_job_id in bulk_processing_jobs and
\* bulk_processing_jobs[bulk_job_id].get('status') == 'cancelled'".
is_cancelled(reg, id) == reg[id].present /\ reg[id].status = "cancelled"

\* What _process_single_file_from_data does with one file.
SeqOutcomes == {"no_text", "exception", "duplicate", "good", "partial", "poor"}

\* file_result["status"] it leaves: "failed" is the initial value, a record
\* of poor quality is marked failed although it is kept.
file_status(o) ==
    CASE o = "good"      -> "success"
      [] o = "partial"   -> "partial_success"
      [] o = "duplicate" -> "duplicate"
      [] OTHER           -> "failed"

\* The counters and the batch list after _process_single_file_from_data.
apply_outcome(b, o) ==
    [b EXCEPT
       !.results = Append(b.results, file_status(o)),
       !.i = b.i + 1,
       !.successful = IF o \in {"good", "partial", "poor"} THEN @ + 1 ELSE @,
       !.batch = IF o \in {"good", "partial", "poor"} THEN @ + 1 ELSE @,
       !.failed = IF o \in {"no_text", "exception"} THEN @ + 1 ELSE @,
       !.duplicate = IF o = "duplicate" THEN @ + 1 ELSE @]

\* The registry update at the end of one loop iteration.
SeqProgress(reg, id, b) ==
    UpdateJob(reg, id,
        [reg[id] EXCEPT !.processed_files = b.i,
                    !.successful_files = b.successful,
                    !.failed_files = b.failed,
                    !.duplicate_files = b.duplicate,
                    !.progress = progress_percentage_of(b.i, Max(1, b.n)),
                    !.results = b.results])

\* The final registry update.
SeqFinal(reg, id, b) ==
    UpdateJob(reg, id,
        [reg[id] EXCEPT !.status = "completed",
                    !.total_files = b.n,
                    !.processed_files = b.n,
                    !.successful_files = b.successful,
                    !.failed_files = b.failed,
                    !.duplicate_files = b.duplicate,
                    !.progress = 10000,
                    !.results = b.results])

\* Where the worker b goes from the head of its file loop, given the
\* registry reg: into the next file, to the batch save, or to the end.
SeqContinue(reg, b) ==
    IF b.i < b.n /\ ~is_cancelled(reg, b.job_id)
      THEN /\ bulk' = [b EXCEPT !.pc = "file"]
           /\ registry' = reg
    ELSE IF b.batch > 0
      THEN /\ bulk' = [b EXCEPT !.pc = "saving"]
           /\ registry' = reg
    ELSE /\ bulk' = [b EXCEPT !.pc = "done"]
         /\ registry' = SeqFinal(reg, b.job_id, b)

\* The uploads are read: n files to process, zips archives that cannot be
\* extracted (each a failed result), or a read raises.
SeqCollect(n, zips, raises) ==
    /\ bulk.kind \in {"seq", "inline"} /\ bulk.pc = "collect"
    /\ IF raises
         THEN /\ registry' = UpdateJob(registry, bulk.job_id,
                                [registry[bulk.job_id] EXCEPT !.status = "failed", !.error = TRUE])
              /\ bulk' = [bulk EXCEPT !.pc = "done"]
         ELSE LET b == [bulk EXCEPT !.n = n, !.failed = zips,
                          !.results = [k \in 1..zips |-> "failed"]]
                  reg == UpdateJob(registry, bulk.job_id,
                                [registry[bulk.job_id] EXCEPT !.total_files = n])
              IN SeqContinue(reg, b)
    /\ UNCHANGED <<reup, clock>>
    /\ UNCHANGED <<retryVars, callVars>>

\* _process_single_file_from_data returns for file i: its result is appended,
\* the registry entry updated, and the loop goes on to its next test.
SeqFileDone(o) ==
    /\ bulk.kind \in {"seq", "inline"} /\ bulk.pc = "file"
    /\ LET b == apply_outcome(bulk, o)
           reg == SeqProgress(registry, bulk.job_id, b)
       IN SeqContinue(reg, b)
    /\ UNCHANGED <<reup, clock>>
    /\ UNCHANGED <<retryVars, callVars>>

\* save_batch_resume_data returns or raises (the error is logged).
SeqSaved(raises) ==
    /\ bulk.kind = "seq" /\ bulk.pc = "saving"
    /\ registry' = SeqFinal(registry, bulk.job_id, bulk)
    /\ bulk' = [bulk EXCEPT !.pc = "done"]
    /\ UNCHANGED <<reup, clock>>
    /\ UNCHANGED <<retryVars, callVars>>

\* ---------------------------------------------------------------------
\* bulk_parse_resumes, inline: batch save and candidate creation
\* ---------------------------------------------------------------------
Count(seq, S) == Cardinality({k \in 1..Len(seq) : seq[k] \in S})

\* What the hand-off does: save_batch_resume_data raises; it returns no
\* record ids (or no company id is known); create_candidates_from_resume_data
\* reports failure or raises; or it reports created candidates.
SaveOutcomes == {"save_raises", "no_records", "candidates_failed", "candidates_created"}

\* The counters after the hand-off; created is the 'success' count of the
\* candidate creation summary.
after_handoff(b, o, created) ==
    CASE o = "save_raises" -> b
      [] o = "no_records" ->
           [b EXCEPT !.successful = 0,
                     !.failed = Count(b.results, {"duplicate"})
                                  + Count(b.results, {"failed"})]
      [] o = "candidates_failed" ->
           [b EXCEPT !.successful = 0, !.failed = b.n]
      [] o = "candidates_created" ->
           [b EXCEPT !.successful = created, !.failed = b.n - created]

\* The hand-off returns and the final update follows.
InlineSaved(o, created) ==
    /\ bulk.kind = "inline" /\ bulk.pc = "saving"
    /\ created <= bulk.batch
    /\ LET b == after_handoff(bulk, o, created) IN
         /\ registry' = SeqFinal(registry, bulk.job_id, b)
         /\ bulk' = [b EXCEPT !.pc = "done"]
    /\ UNCHANGED <<reup, clock>>
    /\ UNCHANGED <<retryVars, callVars>>

\* ---------------------------------------------------------------------
\* re_upload_failed_resumes and process_reupload_files
\* ---------------------------------------------------------------------
\* n_ids failed_resume_ids are sent, n_actual of them are not ".metadata"
\* ids; the job id is the caller's.
re_upload_failed_resumes(id, n_ids, n_actual) ==
    /\ reup.pc = "idle"
    /\ registry' = [registry EXCEPT ![id] = NewReuploadJob(clock, n_ids)]
    /\ clock' = clock + 1
    /\ reup' = [NoReup EXCEPT !.pc = "created", !.job_id = id, !.n = n_actual]
    /\ UNCHANGED bulk
    /\ UNCHANGED <<retryVars, callVars>>

\* "job" of process_reupload_files is the dict registered under its job id:
\* no later operation replaces that entry.
ReupFinal(reg, id, r) ==
    [reg EXCEPT ![id].status =
                    IF r.failed = 0 THEN "completed" ELSE "completed_with_errors",
                ![id].results = r.results]

\* The task starts: the status is written, the ids are filtered; a list of
\* ids that are not strings raises.  With no id left the loop is empty.
ReupStart(raises) ==
    /\ reup.pc = "created"
    /\ LET reg == [registry EXCEPT ![reup.job_id].status = "processing"] IN
       IF raises
         THEN /\ registry' = [reg EXCEPT ![reup.job_id].status = "failed",
                                         ![reup.job_id].error = TRUE]
              /\ reup' = [reup EXCEPT !.pc = "done"]
         ELSE IF reup.n = 0
         THEN /\ registry' = ReupFinal(reg, reup.job_id, reup)
              /\ reup' = [reup EXCEPT !.pc = "done"]
         ELSE /\ registry' = reg
              /\ reup' = [reup EXCEPT !.pc = "file"]
    /\ UNCHANGED <<bulk, clock>>
    /\ UNCHANGED <<retryVars, callVars>>

ReupOutcomes == {"success", "failed", "error"}

\* One iteration ends: the result joins the local list and the job's
\* counters are written; after the last one the final update follows.
\* "error" is the iteration's outer handler, which leaves successful_files.
ReupFileDone(o) ==
    /\ reup.pc = "file"
    /\ LET r == [reup EXCEPT
                   !.i = @ + 1,
                   !.results = Append(@, IF o = "success" THEN "success" ELSE "failed"),
                   !.successful = IF o = "success" THEN @ + 1 ELSE @,
                   !.failed = IF o = "success" THEN @ ELSE @ + 1]
           id == reup.job_id
           reg == [registry EXCEPT
                     ![id].processed_files = r.i,
                     ![id].successful_files = IF o = "error" THEN @ ELSE r.successful,
                     ![id].failed_files = r.failed,
                     ![id].progress_percentage = int_percentage_of(r.i, r.n)]
       IN IF r.i < r.n
            THEN /\ registry' = reg
                 /\ reup' = r
            ELSE /\ registry' = ReupFinal(reg, id, r)
                 /\ reup' = [r EXCEPT !.pc = "done"]
    /\ UNCHANGED <<bulk, clock>>
    /\ UNCHANGED <<retryVars, callVars>>

\* ---------------------------------------------------------------------
\* Cancellation and status reads
\* ---------------------------------------------------------------------
cancel_job(id) ==
    /\ registry[id].present
    /\ registry[id].status \notin {"completed", "failed", "cancelled"}
    /\ registry' = [registry EXCEPT ![id].status = "cancelled"]
    /\ UNCHANGED <<bulk, reup, clock>>
    /\ UNCHANGED <<retryVars, callVars>>

cancel_all_jobs ==
    /\ \E id \in JobIds : registry[id].present
    /\ registry' = [id \in JobIds |->
                      IF registry[id].status \in {"processing", "queued"}
                        THEN [registry[id] EXCEPT !.status = "cancelled"]
                        ELSE registry[id]]
    /\ UNCHANGED <<bulk, reup, clock>>
    /\ UNCHANGED <<retryVars, callVars>>

\* The snapshot get_job_status returns.
get_job_status(id) ==
    [status |-> registry[id].status,
     total_files |-> registry[id].total_files,
     processed_files |-> registry[id].processed_files,
     successful_files |-> registry[id].successful_files,
     failed_files |-> registry[id].failed_files,
     progress_percentage |-> registry[id].progress_percentage,
     results |-> registry[id].results]

\* The snapshot get_bulk_job_status returns from the in-memory registry.
get_bulk_job_status(id) ==
    [registry[id] EXCEPT
       !.progress = progress_percentage_of(registry[id].processed_files,
                                           Max(1, registry[id].total_files))]

BulkInit ==
    /\ registry = [id \in JobIds |-> NoJob]
    /\ bulk = NoBulk
    /\ reup = NoReup
    /\ clock = 1


RetryInit ==
    /\ file \in Files
    /\ rpc = "validate"
    /\ attempt_num = 0
    /\ last_error = "None"
    /\ attempts = <<>>
    /\ last_outcome = "None"
    /\ calls = 0
    /\ retry_result = NoRetryResult
    /\ result = NoResult

RetryIdle ==
    /\ file = CHOOSE f \in Files : validate_file(f).is_valid
    /\ rpc = "idle"
    /\ attempt_num = 0
    /\ last_error = "None"
    /\ attempts = <<>>
    /\ last_outcome = "None"
    /\ calls = 0
    /\ retry_result = NoRetryResult
    /\ result = NoResult

(***************************************************************************)
(* ContactExtractor (services/contact_extractor.py)                        *)
(*                                                                         *)
(* A text is its lines; of a line the model keeps whether it holds one of  *)
(* the e-mail keywords, one of the phone keywords, and the normalized      *)
(* e-mail address and phone number the patterns find in it ("None": no     *)
(* match).  Confidences are in tenths.                                     *)
(***************************************************************************)
MaxLines == 2
Emails == {"e1", "e2"}
Phones == {"p1", "p2"}
Lines == [email_kw : BOOLEAN, phone_kw : BOOLEAN,
          email : Emails \cup {"None"}, phone : Phones \cup {"None"}]
Texts == UNION {[1..n -> Lines] : n \in 1..MaxLines}

ContactInfo(email, phone, confidence, source) ==
    [email |-> email, phone |-> phone, confidence |-> confidence, source |-> source]

Min(a, b) == IF a <= b THEN a ELSE b

\* The first match in the whole text.
first_email(text) ==
    LET found == {k \in 1..Len(text) : text[k].email # "None"} IN
    IF found = {} THEN "None"
    ELSE text[CHOOSE k \in found : \A m \in found : k <= m].email

first_phone(text) ==
    LET found == {k \in 1..Len(text) : text[k].phone # "None"} IN
    IF found = {} THEN "None"
    ELSE text[CHOOSE k \in found : \A m \in found : k <= m].phone

\* The match of the last keyword line that has one: the loop over the lines
\* overwrites what an earlier line gave.
context_email(text) ==
    LET found == {k \in 1..Len(text) : text[k].email_kw /\ text[k].email # "None"} IN
    IF found = {} THEN "None"
    ELSE text[CHOOSE k \in found : \A m \in found : k >= m].email

context_phone(text) ==
    LET found == {k \in 1..Len(text) : text[k].phone_kw /\ text[k].phone # "None"} IN
    IF found = {} THEN "None"
    ELSE text[CHOOSE k \in found : \A m \in found : k >= m].phone

extract_with_regex(text) ==
    LET email == first_email(text)
        phone == first_phone(text)
        confidence == IF email # "None" /\ phone # "None" THEN 8
                      ELSE IF email # "None" \/ phone # "None" THEN 6 ELSE 0
    IN ContactInfo(email, phone, confidence, "regex")

\* A variant of the context method with the confidence of the regex method.
extract_with_context_mut(text) ==
    LET email == context_email(text)
        phone == context_phone(text)
        confidence == IF email # "None" /\ phone # "None" THEN 8
                      ELSE IF email # "None" \/ phone # "None" THEN 6 ELSE 0
    IN ContactInfo(email, phone, confidence, "context")

extract_with_context(text) ==
    LET email == context_email(text)
        phone == context_phone(text)
        confidence == IF email # "None" /\ phone # "None" THEN 9
                      ELSE IF email # "None" \/ phone # "None" THEN 7 ELSE 0
    IN ContactInfo(email, phone, confidence, "context")

combine_results(regex_result, context_result) ==
    LET email == IF context_result.email # "None" THEN context_result.email
                 ELSE regex_result.email
        phone == IF context_result.phone # "None" THEN context_result.phone
                 ELSE regex_result.phone
        c0 == Max(regex_result.confidence, context_result.confidence)
        c1 == IF context_result.email # "None" /\ regex_result.email # "None"
                 /\ context_result.email = regex_result.email
              THEN Min(c0 + 1, 10) ELSE c0
        c2 == IF context_result.phone # "None" /\ regex_result.phone # "None"
                 /\ context_result.phone = regex_result.phone
              THEN Min(c1 + 1, 10) ELSE c1
        source == IF context_result.email # "None" \/ context_result.phone # "None"
                    THEN "context"
                  ELSE IF regex_result.email # "None" \/ regex_result.phone # "None"
                    THEN "regex"
                  ELSE "combined"
    IN ContactInfo(email, phone, c2, source)

NoContactInfo == ContactInfo("None", "None", 0, "unknown")
NoContact == [pc |-> "idle", text |-> <<>>, regex_result |-> NoContactInfo,
              context_result |-> NoContactInfo, final_result |-> NoContactInfo]

extract_contact_info ==
    /\ contact.pc = "call"
    /\ LET regex_result == extract_with_regex(contact.text)
           context_result == extract_with_context(contact.text)
       IN contact' = [contact EXCEPT
                        !.pc = "done",
                        !.regex_result = regex_result,
                        !.context_result = context_result,
                        !.final_result = combine_results(regex_result, context_result)]
    /\ UNCHANGED <<retryVars, bulkVars, uniq, validation, doc, queue>>

(***************************************************************************)
(* _check_resume_uniqueness and its caller (controllers/resume_controller) *)
(*                                                                         *)
(* Name, Email and Phone are "null" (JSON null), "" (absent or blank) or a *)
(* normalized value; a skill list is the set of its normalized entries.    *)
(* The history is what get_all_resumes does: it raises, or it returns      *)
(* records whose parsed_data is a dict, a string that is not JSON, or      *)
(* something else.                                                         *)
(***************************************************************************)
MaxHistory == 1
SkillSets == {{}, 1..4, {1, 2, 3, 5}, 1..5}

Candidates == [name : {"null", "", "a"}, email : {"", "a"}, phone : {"", "a"},
               skills : SkillSets \ {{1, 2, 3, 5}}]

HistoryRecords ==
    [kind : {"dict"}, name : {"null", "a", "b"}, email : {"a", "b"},
     phone : {"a", "b"}, skills : SkillSets]
    \cup [kind : {"bad_json", "not_dict"}, name : {""}, email : {""},
          phone : {""}, skills : {{}}]

Histories == UNION {[1..n -> HistoryRecords] : n \in 0..MaxHistory}

UniquenessCheck(is_unique, reason) == [is_unique |-> is_unique, reason |-> reason]

missing_fields(cand) ==
    {f \in {"Name", "Email", "Phone", "Skills"} :
        \/ f = "Name" /\ cand.name = ""
        \/ f = "Email" /\ cand.email = ""
        \/ f = "Phone" /\ cand.phone = ""
        \/ f = "Skills" /\ cand.skills = {}}

\* A variant of the threshold test below that needs more than 80%.
skills_similar_mut(skills, existing_skills) ==
    /\ skills # {} /\ existing_skills # {}
    /\ 5 * Cardinality(skills \cap existing_skills)
         > 4 * Cardinality(skills \cup existing_skills)

\* similarity >= 0.8 with similarity = len(common_skills) / total_skills.
skills_similar(skills, existing_skills) ==
    /\ skills # {} /\ existing_skills # {}
    /\ 5 * Cardinality(skills \cap existing_skills)
         >= 4 * Cardinality(skills \cup existing_skills)

\* A variant of the comparison below that looks at the email before the name.
compare_with_existing_mut(cand, rec) ==
    IF rec.kind # "dict" THEN "continue"
    ELSE IF rec.name = "null" THEN "raise"
    ELSE IF cand.email # "" /\ rec.email # "" /\ cand.email = rec.email
      THEN "duplicate_email"
    ELSE IF cand.name # "" /\ rec.name # "" /\ cand.name = rec.name
      THEN "duplicate_name"
    ELSE IF cand.phone # "" /\ rec.phone # "" /\ cand.phone = rec.phone
      THEN "duplicate_phone"
    ELSE IF skills_similar(cand.skills, rec.skills) THEN "duplicate_skills"
    ELSE "continue"

\* One iteration of the loop over existing_resumes: "continue", "raise"
\* (.strip() of a null Name), or the reason of the return.
compare_with_existing(cand, rec) ==
    IF rec.kind # "dict" THEN "continue"
    ELSE IF rec.name = "null" THEN "raise"
    ELSE IF cand.name # "" /\ rec.name # "" /\ cand.name = rec.name
      THEN "duplicate_name"
    ELSE IF cand.email # "" /\ rec.email # "" /\ cand.email = rec.email
      THEN "duplicate_email"
    ELSE IF cand.phone # "" /\ rec.phone # "" /\ cand.phone = rec.phone
      THEN "duplicate_phone"
    ELSE IF skills_similar(cand.skills, rec.skills) THEN "duplicate_skills"
    ELSE "continue"

RECURSIVE scan_existing(_, _, _)
scan_existing(cand, existing_resumes, k) ==
    IF k > Len(existing_resumes) THEN "unique_resume"
    ELSE LET v == compare_with_existing(cand, existing_resumes[k]) IN
         IF v = "continue" THEN scan_existing(cand, existing_resumes, k + 1)
         ELSE v

\* _check_resume_uniqueness; read_raises: get_all_resumes raised.
check_resume_uniqueness(cand, read_raises, existing_resumes) ==
    IF cand.name = "null"
      THEN UniquenessCheck(FALSE, "uniqueness_check_failed")
    ELSE IF missing_fields(cand) # {}
      THEN UniquenessCheck(FALSE, "missing_required_fields")
    ELSE IF read_raises
      THEN UniquenessCheck(TRUE, "db_check_skipped")
    ELSE LET v == scan_existing(cand, existing_resumes, 1) IN
         IF v = "raise" THEN UniquenessCheck(FALSE, "uniqueness_check_failed")
         ELSE UniquenessCheck(v = "unique_resume", v)

\* The tiers _validate_parsed_data can give the candidate, by the number of
\* its missing essentials (Name, Email, Phone).
possible_qualities(cand) ==
    LET m == Cardinality({f \in {"n", "e", "p"} :
                 \/ f = "n" /\ cand.name \in {"null", ""}
                 \/ f = "e" /\ cand.email = ""
                 \/ f = "p" /\ cand.phone = ""}) IN
    IF m >= 2 THEN {"poor"}
    ELSE IF m = 1 THEN {"partial", "poor"}
    ELSE {"good", "partial", "poor"}

NoUniq ==
    [pc |-> "idle", parsed_data |-> [name |-> "", email |-> "", phone |-> "",
                                     skills |-> {}],
     quality |-> "poor", read_raises |-> FALSE, existing_resumes |-> <<>>,
     uniqueness_check |-> UniquenessCheck(FALSE, "none"), status |-> "failed",
     successful_files |-> 0, failed_files |-> 0, duplicate_files |-> 0,
     batch |-> 0]

\* _process_single_file_from_data from the uniqueness check to its return.
process_single_file_from_data ==
    /\ uniq.pc = "call"
    /\ LET uniqueness_check ==
             check_resume_uniqueness(uniq.parsed_data, uniq.read_raises,
                                     uniq.existing_resumes) IN
       IF ~uniqueness_check.is_unique
         THEN uniq' = [uniq EXCEPT !.pc = "done",
                                   !.uniqueness_check = uniqueness_check,
                                   !.status = "duplicate",
                                   !.duplicate_files = @ + 1]
         ELSE uniq' = [uniq EXCEPT !.pc = "done",
                                   !.uniqueness_check = uniqueness_check,
                                   !.status = file_status(uniq.quality),
                                   !.batch = @ + 1,
                                   !.successful_files = @ + 1]
    /\ UNCHANGED <<retryVars, bulkVars, contact, validation, doc, queue>>

\* The inputs of one file: a candidate with a tier it can have, and either a
\* failed read of the history or the records read.
UniqInputs(c) ==
    {[NoUniq EXCEPT !.pc = "call", !.parsed_data = c, !.quality = q,
                    !.existing_resumes = h] :
        q \in possible_qualities(c), h \in Histories}
    \cup {[NoUniq EXCEPT !.pc = "call", !.parsed_data = c, !.quality = q,
                         !.read_raises = TRUE] :
        q \in possible_qualities(c)}

UniqInit == \E c \in Candidates : uniq \in UniqInputs(c)

\* Histories of several readable records, for a candidate with all fields.
MaxRecords == 2
ReadableRecords ==
    {r \in HistoryRecords : r.kind = "dict" /\ r.name # "null" /\ r.skills # {}}

UniqOrderInit ==
    \E c \in {x \in Candidates : x.name = "a" /\ missing_fields(x) = {}},
       n \in 1..MaxRecords :
       uniq \in {[NoUniq EXCEPT !.pc = "call", !.parsed_data = c, !.quality = q,
                                !.existing_resumes = h] :
                   q \in possible_qualities(c), h \in [1..n -> ReadableRecords]}

(***************************************************************************)
(* _validate_parsed_data (controllers/resume_controller.py)                *)
(*                                                                         *)
(* An essential field is "" (absent, null or empty), " " (blank) or "v".   *)
(* Experience, Skills and Education are "absent", "empty" (an empty list), *)
(* "list" (a non-empty list) or "text" (a non-empty value that is not a    *)
(* list).  others is the number of further keys with a non-blank value.    *)
(***************************************************************************)
MaxOther == 3
EssentialValues == {"", " ", "v"}
ListValues == {"absent", "empty", "list", "text"}
ParsedRecords ==
    [Name : EssentialValues, Email : EssentialValues, Phone : EssentialValues,
     Experience : ListValues, Skills : ListValues, Education : ListValues,
     others : 0..MaxOther]

essential_fields == {"Name", "Email", "Phone"}
list_fields == {"Experience", "Skills", "Education"}

\* not value or not str(value).strip()
missing_essential(d) == {f \in essential_fields : d[f] # "v"}

\* not x or not isinstance(x, list) or len(x) == 0
list_warnings(d) == {f \in list_fields : d[f] # "list"}

\* len([k for k, v in parsed_data.items() if v and str(v).strip()])
total_fields(d) ==
    Cardinality({f \in essential_fields : d[f] = "v"})
      + Cardinality({f \in list_fields : d[f] \in {"list", "text"}})
      + d.others

\* The tier before the completeness check.
quality_level(d) ==
    IF Cardinality(missing_essential(d)) >= 2 THEN "poor"
    ELSE IF Cardinality(missing_essential(d)) = 1
              \/ Cardinality(list_warnings(d)) >= 2 THEN "partial"
    ELSE "good"

\* A variant of the function below without the completeness check.
validate_parsed_data_mut(d) ==
    [quality |-> quality_level(d),
     completeness_score |-> total_fields(d),
     missing_essential |-> missing_essential(d)]

validate_parsed_data(d) ==
    [quality |-> IF total_fields(d) < 5 THEN "poor" ELSE quality_level(d),
     completeness_score |-> total_fields(d),
     missing_essential |-> missing_essential(d)]

NoValidation ==
    [pc |-> "idle",
     parsed_data |-> [Name |-> "", Email |-> "", Phone |-> "",
                      Experience |-> "absent", Skills |-> "absent",
                      Education |-> "absent", others |-> 0],
     validation_result |-> [quality |-> "none", completeness_score |-> 0,
                            missing_essential |-> {}]]

\* validation_result = _validate_parsed_data(parsed_data)
ValidateParsedData ==
    /\ validation.pc = "call"
    /\ validation' = [validation EXCEPT
                        !.pc = "done",
                        !.validation_result = validate_parsed_data(validation.parsed_data)]
    /\ UNCHANGED <<retryVars, bulkVars, contact, uniq, doc, queue>>

ValidationInit ==
    validation \in {[NoValidation EXCEPT !.pc = "call", !.parsed_data = d] :
                      d \in ParsedRecords}

(***************************************************************************)
(* FileProcessor._process_doc (services/file_processor.py)                 *)
(*                                                                         *)
(* Of one call the model keeps what each step meets.  A converter is       *)
(* "absent" (not on the path, or switched off), gives "text" (at least 10  *)
(* characters) or "none" (it fails, raises or gives less).  pdf tells      *)
(* whether a DOC->PDF conversion produced a file and whether text came out *)
(* of it; ocr is "off" or what the OCR of that PDF gives.  printable: the  *)
(* decoded bytes hold a printable ASCII character other than a blank.      *)
(***************************************************************************)
DocCalls ==
    {d \in [tmp_ok : BOOLEAN,
            antiword : {"absent", "text", "none"},
            soffice : {"absent", "text", "none"},
            pandoc : {"absent", "text", "none"},
            pdf : {"none", "text", "short"},
            ocr : {"off", "text", "none"},
            printable : BOOLEAN] :
        d.pdf # "none" => (d.soffice # "absent" \/ d.pandoc # "absent")}

\* A variant of _process_doc without the byte-decoding step.
process_doc_mut(d) ==
    IF ~d.tmp_ok THEN "raise"
    ELSE IF d.antiword = "text" THEN "antiword"
    ELSE IF d.soffice = "text" THEN "libreoffice"
    ELSE IF d.pandoc = "text" THEN "pandoc"
    ELSE IF d.pdf = "text" THEN "pdf"
    ELSE IF d.pdf = "short" /\ d.ocr = "text" THEN "ocr"
    ELSE "raise"

\* The step whose text _process_doc returns, or "raise".
process_doc(d) ==
    IF ~d.tmp_ok THEN "raise"
    ELSE IF d.antiword = "text" THEN "antiword"
    ELSE IF d.soffice = "text" THEN "libreoffice"
    ELSE IF d.pandoc = "text" THEN "pandoc"
    ELSE IF d.pdf = "text" THEN "pdf"
    ELSE IF d.pdf = "short" /\ d.ocr = "text" THEN "ocr"
    ELSE IF d.printable THEN "bytes"
    ELSE "raise"

ProcessDoc ==
    /\ doc.pc = "call"
    /\ doc' = [doc EXCEPT !.pc = "done", !.returned = process_doc(doc.d)]
    /\ UNCHANGED <<retryVars, bulkVars, contact, uniq, validation, queue>>

ContactInit == contact \in {[NoContact EXCEPT !.pc = "call", !.text = t] : t \in Texts}

NoDoc == [pc |-> "idle", returned |-> "none",
          d |-> [tmp_ok |-> TRUE, antiword |-> "absent", soffice |-> "absent",
                 pandoc |-> "absent", pdf |-> "none", ocr |-> "off",
                 printable |-> FALSE]]

(***************************************************************************)
(* QueueService and AsyncResumeProcessor (services/queue_service.py,       *)
(* services/async_resume_processor.py)                                     *)
(*                                                                         *)
(* The Redis list resume_processing_queue and the hashes job_status:<id>   *)
(* are shared by the request handlers and the background processor; an     *)
(* action is one Redis command of a client with the code that follows it   *)
(* up to the client's next command.  A job id is a fresh uuid, so each id  *)
(* is submitted once.  The expiry of a hash after 24 hours is not          *)
(* modelled.  The "continue" of _process_next_job, which stands outside    *)
(* any loop, is read as the end of the call, as its log message says.      *)
(***************************************************************************)
MaxJobs == 2
QueueJobs == 1..MaxJobs

\* job_status[j] = "none": the hash job_status:<j> does not exist.
\* cancelled_from[j]: the status cancel_job found when it last returned True
\* for j.  saved: the jobs save_resume_data stored a record for.
NoQueue ==
    [resume_processing_queue |-> <<>>,
     submit |-> [j \in QueueJobs |-> "new"],
     job_status |-> [j \in QueueJobs |-> "none"],
     worker |-> [job |-> 0, pc |-> "idle"],
     saved |-> {},
     cancelled_from |-> [j \in QueueJobs |-> "none"]]

\* update_job_status: hset of the status field; the hash is created when it
\* does not exist.
update_job_status(q, job_id, status) ==
    [q EXCEPT !.job_status[job_id] = status]

\* add_resume_job, first command: lpush of the job data.
AddResumeJobPush(j) ==
    /\ queue.submit[j] = "new"
    /\ queue' = [queue EXCEPT
                   !.submit[j] = "pushed",
                   !.resume_processing_queue = <<j>> \o @]
    /\ UNCHANGED <<retryVars, bulkVars, contact, uniq, validation, doc>>

\* add_resume_job, second command: hset of status "queued"; the id is
\* returned.
AddResumeJobStatus(j) ==
    /\ queue.submit[j] = "pushed"
    /\ queue' = [update_job_status(queue, j, "queued") EXCEPT !.submit[j] = "added"]
    /\ UNCHANGED <<retryVars, bulkVars, contact, uniq, validation, doc>>

\* QueueService.cancel_job: False when the hash does not exist, otherwise
\* the status is overwritten and True is returned.
QueueCancelJob(j) ==
    /\ queue.job_status[j] # "none"
    /\ queue' = [update_job_status(queue, j, "cancelled") EXCEPT
                   !.cancelled_from[j] = queue.job_status[j]]
    /\ UNCHANGED <<retryVars, bulkVars, contact, uniq, validation, doc>>

\* _process_next_job: brpop takes the job at the right end of the list.
Dequeue ==
    /\ queue.worker.pc = "idle"
    /\ queue.resume_processing_queue # <<>>
    /\ LET l == queue.resume_processing_queue IN
       queue' = [queue EXCEPT
                   !.resume_processing_queue = SubSeq(l, 1, Len(l) - 1),
                   !.worker = [job |-> l[Len(l)], pc |-> "check"]]
    /\ UNCHANGED <<retryVars, bulkVars, contact, uniq, validation, doc>>

\* get_job_status: a cancelled job is skipped; a job without a hash gives
\* {"error": "Job not found"}, whose status is not "cancelled".
CheckCancelled ==
    /\ queue.worker.pc = "check"
    /\ queue' = [queue EXCEPT
                   !.worker = IF queue.job_status[queue.worker.job] = "cancelled"
                                THEN [job |-> 0, pc |-> "idle"]
                                ELSE [@ EXCEPT !.pc = "10"]]
    /\ UNCHANGED <<retryVars, bulkVars, contact, uniq, validation, doc>>

\* The step that follows each progress value.
next_step(pc) ==
    CASE pc = "10" -> "30"
      [] pc = "30" -> "60"
      [] pc = "60" -> "80"
      [] pc = "80" -> "completed"

\* update_job_status(job_id, "processing", p) for p = 10, 30, 60, 80 and
\* the call after it: fromhex, process_file, parse_resume_text,
\* save_resume_data.  The call raises, or returns; save_resume_data stores
\* the record.
Progress(raises) ==
    /\ queue.worker.pc \in {"10", "30", "60", "80"}
    /\ LET j == queue.worker.job
           q == update_job_status(queue, j, "processing") IN
       queue' = IF raises
                  THEN [q EXCEPT !.worker.pc = "failed"]
                  ELSE [q EXCEPT !.worker.pc = next_step(queue.worker.pc),
                                 !.saved = IF queue.worker.pc = "80"
                                             THEN @ \cup {j} ELSE @]
    /\ UNCHANGED <<retryVars, bulkVars, contact, uniq, validation, doc>>

\* update_job_status(job_id, "completed", "100", result) or, in the except
\* handler, update_job_status(job_id, "failed", error).
Finished ==
    /\ queue.worker.pc \in {"completed", "failed"}
    /\ queue' = [update_job_status(queue, queue.worker.job, queue.worker.pc)
                   EXCEPT !.worker = [job |-> 0, pc |-> "idle"]]
    /\ UNCHANGED <<retryVars, bulkVars, contact, uniq, validation, doc>>

CallsIdle ==
    contact = NoContact /\ uniq = NoUniq /\ validation = NoValidation /\ doc = NoDoc /\ queue = NoQueue

(***************************************************************************)
(* Specifications                                                          *)
(***************************************************************************)
RetryNext == Validate \/ Attempt \/ Backoff \/ Finish

InitRetry == RetryInit /\ BulkInit /\ CallsIdle

SpecRetry == InitRetry /\ [][RetryNext]_vars

Init == RetryIdle /\ BulkInit /\ CallsIdle

Next ==
    \/ \E id \in JobIds, kind \in {"ultra", "seq"}, empty \in BOOLEAN :
          bulk_parse_resumes(id, kind, empty)
    \/ \E n \in 0..MaxFiles, raises \in BOOLEAN : UltraCollect(n, raises)
    \/ \E k \in 1..MaxFiles : UltraAcquire(k)
    \/ \E k \in 1..MaxFiles, st \in {"success", "failed"} : UltraFinish(k, st)
    \/ UltraGathered
    \/ \E raises \in BOOLEAN : UltraSaved(raises)
    \/ \E n \in 0..MaxFiles, zips \in 0..1, raises \in BOOLEAN : SeqCollect(n, zips, raises)
    \/ \E o \in SeqOutcomes : SeqFileDone(o)
    \/ \E raises \in BOOLEAN : SeqSaved(raises)
    \/ \E id \in JobIds, n_ids \in 1..MaxIds : \E n_actual \in 0..n_ids :
          re_upload_failed_resumes(id, n_ids, n_actual)
    \/ \E raises \in BOOLEAN : ReupStart(raises)
    \/ \E o \in ReupOutcomes : ReupFileDone(o)
    \/ \E id \in JobIds : cancel_job(id)
    \/ cancel_all_jobs

Spec == Init /\ [][Next]_vars

\* One bulk submission handled by _background_process_bulk_ultra_fast, with
\* cancellations arriving at any time.
NextPool ==
    \/ \E id \in JobIds, empty \in BOOLEAN : bulk_parse_resumes(id, "ultra", empty)
    \/ \E n \in 0..MaxFiles, raises \in BOOLEAN : UltraCollect(n, raises)
    \/ \E k \in 1..MaxFiles : UltraAcquire(k)
    \/ \E k \in 1..MaxFiles, st \in {"success", "failed"} : UltraFinish(k, st)
    \/ UltraGathered
    \/ \E raises \in BOOLEAN : UltraSaved(raises)
    \/ \E id \in JobIds : cancel_job(id)
    \/ cancel_all_jobs

SpecPool == Init /\ [][NextPool]_vars

\* The handler's inline loop alone, with the cancellation handlers.
NextInline ==
    \/ \E id \in JobIds, empty \in BOOLEAN : bulk_parse_resumes(id, "inline", empty)
    \/ \E n \in 0..MaxFiles, zips \in 0..1, raises \in BOOLEAN :
          SeqCollect(n, zips, raises)
    \/ \E o \in SeqOutcomes : SeqFileDone(o)
    \/ \E o \in SaveOutcomes, created \in 0..MaxFiles : InlineSaved(o, created)
    \/ \E id \in JobIds : cancel_job(id)
    \/ cancel_all_jobs

SpecInline == Init /\ [][NextInline]_vars

\* One call of extract_contact_info on every text of the model.
InitContact ==
    /\ RetryIdle /\ BulkInit /\ ContactInit
    /\ uniq = NoUniq /\ validation = NoValidation /\ doc = NoDoc /\ queue = NoQueue

NextContact == extract_contact_info

SpecContact == InitContact /\ [][NextContact]_vars

\* One file through the uniqueness check, for every candidate and history
\* of the model.
InitUniq ==
    /\ RetryIdle /\ BulkInit /\ contact = NoContact /\ UniqInit
    /\ validation = NoValidation /\ doc = NoDoc /\ queue = NoQueue

NextUniq == process_single_file_from_data

SpecUniq == InitUniq /\ [][NextUniq]_vars

\* The same step for a candidate with all fields and up to MaxRecords
\* readable history records.
InitUniqOrder ==
    /\ RetryIdle /\ BulkInit /\ contact = NoContact /\ UniqOrderInit
    /\ validation = NoValidation /\ doc = NoDoc /\ queue = NoQueue

SpecUniqOrder == InitUniqOrder /\ [][NextUniq]_vars

\* One call of _validate_parsed_data on every record of the model.
InitValidation ==
    /\ RetryIdle /\ BulkInit /\ contact = NoContact /\ uniq = NoUniq
    /\ ValidationInit /\ doc = NoDoc /\ queue = NoQueue

NextValidation == ValidateParsedData

SpecValidation == InitValidation /\ [][NextValidation]_vars

\* One call of _process_doc for every combination of step outcomes.
InitDoc ==
    /\ RetryIdle /\ BulkInit /\ contact = NoContact /\ uniq = NoUniq
    /\ validation = NoValidation /\ queue = NoQueue
    /\ \E d \in DocCalls : doc = [NoDoc EXCEPT !.pc = "call", !.d = d]

SpecDoc == InitDoc /\ [][ProcessDoc]_vars

\* Submissions, cancellations and the background processor on the Redis
\* queue.
NextQueue ==
    \/ \E j \in QueueJobs : AddResumeJobPush(j)
    \/ \E j \in QueueJobs : AddResumeJobStatus(j)
    \/ \E j \in QueueJobs : QueueCancelJob(j)
    \/ Dequeue
    \/ CheckCancelled
    \/ \E raises \in BOOLEAN : Progress(raises)
    \/ Finished

SpecQueue == Init /\ [][NextQueue]_vars

(***************************************************************************)
(* Properties of process_resume and process_with_retry (SpecRetry)         *)
(***************************************************************************)

\* C1: for every file and every sequence of per-attempt outcomes (success,
\* taxonomy error, unexpected exception) the attempt log of
\* process_with_retry never holds more than max_retries + 1 entries, also
\* as returned in the result, and the processing function is invoked at
\* most max_retries + 1 times.
C1_AttemptsBounded ==
    /\ Len(attempts) <= max_retries + 1
    /\ calls <= max_retries + 1
    /\ rpc \in {"returned", "done"} => Len(retry_result.attempts) <= max_retries + 1
    /\ rpc = "done" => Len(result.attempts) <= max_retries + 1

\* A run that used every attempt: max_retries + 1 entries and invocations.
C1_Exhausted ==
    /\ rpc = "done"
    /\ result.has_attempts
    /\ ~result.success
    /\ Len(result.attempts) = max_retries + 1
    /\ calls = max_retries + 1

\* C2 (as amended): a file that validate_file rejects ends process_resume
\* with success false and the error of _create_validation_error, the retry
\* loop is never entered (no attempt, no invocation of the processing
\* function) and the result carries no attempt log: attempts stays None,
\* which holds zero entries, not one.
C2_RejectedNoRetry ==
    (rpc = "done" /\ ~validate_file(file).is_valid) =>
        /\ ~result.success
        /\ result.error = create_validation_error(validate_file(file))
        /\ ~result.has_attempts
        /\ Len(result.attempts) = 0
        /\ attempts = <<>>
        /\ calls = 0
        /\ attempt_num = 0

\* A rejected file whose processing has returned.
C2_RejectedDone ==
    /\ rpc = "done"
    /\ ~validate_file(file).is_valid
    /\ ~result.success

\* C2 as stated: the result of a rejected file has an attempt log of exactly
\* one entry.
C2_OneEntryLog ==
    (rpc = "done" /\ ~validate_file(file).is_valid) =>
        /\ ~result.success
        /\ result.has_attempts
        /\ Len(result.attempts) = 1
        /\ calls = 0

\* C3: when the standard attempt and the enhanced-preprocessing attempt
\* both failed with a recorded (taxonomy) error, whatever the two errors
\* were, and the following attempt succeeds, the run ends with success true
\* and a log of exactly three entries: two failed ones, standard then
\* enhanced preprocessing, and a successful one with strategy fallback
\* extraction.
C3_FallbackRoundTrip ==
    (rpc = "done" /\ result.has_attempts /\ attempt_num = 2
       /\ last_outcome = "success") =>
        /\ result.success
        /\ Len(result.attempts) = 3
        /\ [k \in 1..3 |-> result.attempts[k].success] = <<FALSE, FALSE, TRUE>>
        /\ [k \in 1..3 |-> result.attempts[k].strategy] =
             <<STANDARD, ENHANCED_PREPROCESSING, FALLBACK_EXTRACTION>>
        /\ [k \in 1..3 |-> result.attempts[k].attempt_number] = <<1, 2, 3>>
        /\ result.attempts[1].error \in TaxonomyErrors
        /\ result.attempts[2].error \in TaxonomyErrors

\* A run whose enhanced-preprocessing attempt failed on missing contact
\* information and whose fallback-extraction attempt succeeded.
C3_FallbackSucceeded ==
    /\ rpc = "done"
    /\ result.success
    /\ Len(result.attempts) = 3
    /\ result.attempts[2].strategy = ENHANCED_PREPROCESSING
    /\ result.attempts[2].error = "ContactInfoMissingError"
    /\ result.attempts[3].strategy = FALLBACK_EXTRACTION
    /\ result.attempts[3].success

(***************************************************************************)
(* Properties of the job registry and the background workers (Spec)        *)
(***************************************************************************)

\* The entry under id is the dict bulk_parse_resumes registered for the
\* running bulk submission: no re-upload has replaced it.
is_bulk_job(id) ==
    /\ bulk.pc # "idle"
    /\ bulk.job_id = id
    /\ registry[id].present
    /\ ~(reup.pc # "idle" /\ reup.job_id = id)

TerminalStatuses == {"completed", "completed_with_errors", "failed", "cancelled"}

\* The files of the bulk job that are inside _process_single_file_ultra_fast.
in_flight == {k \in 1..MaxFiles : bulk.files[k] = "running"}

\* C4: once a bulk job has been marked cancelled, no later write of its
\* background worker (final update or error handler) replaces cancelled by
\* another status.
C4_CancelledIsFinal ==
    [][\A id \in JobIds :
         (is_bulk_job(id) /\ registry[id].status = "cancelled")
            => registry'[id].status = "cancelled"]_vars

\* C5: after a bulk job has been marked cancelled, no file of it that had
\* not yet started enters the per-file pipeline.
C5_NoStartAfterCancel ==
    [][(is_bulk_job(bulk.job_id) /\ registry[bulk.job_id].status = "cancelled")
         => \A k \in 1..MaxFiles :
              bulk.files[k] = "waiting" => bulk'.files[k] = "waiting"]_vars

\* C6: at every observed point processed_files of a registered job is at
\* most its total_files.
C6_ProcessedWithinTotal ==
    \A id \in JobIds :
        registry[id].present =>
            get_job_status(id).processed_files <= get_job_status(id).total_files

\* C7: no status read returns a results list shorter than processed_files.
C7_ResultsCoverProcessed ==
    \A id \in JobIds :
        registry[id].present =>
            /\ Len(get_job_status(id).results) >= get_job_status(id).processed_files
            /\ Len(get_bulk_job_status(id).results)
                  >= get_bulk_job_status(id).processed_files

\* C8: the status of a job follows queued -> processing -> terminal: a job
\* is first recorded as queued, processing is entered only from queued, and
\* a terminal status never changes.
C8_StatusStateMachine ==
    [][\A id \in JobIds :
         LET s == registry[id].status
             t == registry'[id].status
         IN /\ (~registry[id].present /\ registry'[id].present) => t = "queued"
            /\ (registry[id].present
                  /\ registry'[id].created_at = registry[id].created_at) =>
                 \/ t = s
                 \/ s = "queued" /\ t \in {"processing", "cancelled"}
                 \/ s = "processing" /\ t \in TerminalStatuses]_vars

\* C9: the final update of a bulk job that was not cancelled leaves
\* completed when no file failed and completed_with_errors otherwise.
C9_FinalStatusByFailures ==
    [][\A id \in JobIds :
         (is_bulk_job(id) /\ bulk.pc # "done" /\ bulk'.pc = "done"
            /\ registry[id].status = "processing"
            /\ registry'[id].status # "failed")
         => registry'[id].status =
              IF registry'[id].failed_files = 0
                THEN "completed" ELSE "completed_with_errors"]_vars

\* C10: within a bulk job the number of files inside the per-file pipeline
\* (_process_single_file_ultra_fast started and not yet returned) never
\* exceeds MAX_CONCURRENT_FILES; the semaphore counts the free places.
C10_PoolLimit ==
    /\ Cardinality(in_flight) <= MAX_CONCURRENT_FILES
    /\ bulk.pc = "gather" => bulk.sem = MAX_CONCURRENT_FILES - Cardinality(in_flight)

\* The pool is full while a submitted file still waits for a place.
C10_PoolFull ==
    /\ bulk.pc = "gather"
    /\ Cardinality(in_flight) = MAX_CONCURRENT_FILES
    /\ \E k \in 1..MaxFiles : bulk.files[k] = "waiting"

\* C11: a failure while one input of a submission is read or expanded (an
\* archive that cannot be extracted) stays with that input: the step of the
\* ultra-fast worker that collects the inputs never leaves the job in status
\* failed.
C11_InputFailureIsLocal ==
    [][\A id \in JobIds :
         (is_bulk_job(id) /\ bulk.kind = "ultra" /\ bulk.pc = "collect"
            /\ registry[id].status = "processing")
         => registry'[id].status # "failed"]_vars


\* C12: a failure of the batch save, or of the candidate creation that
\* follows it, leaves what was recorded per file as it was: the step that
\* returns from the hand-off keeps the job's successful_files, failed_files
\* and result statuses at the values they had before the hand-off.
C12_HandOffKeepsCounts ==
    [][\A id \in JobIds :
         (is_bulk_job(id) /\ bulk.job_id = id /\ bulk.pc = "saving"
            /\ bulk'.pc = "done" /\ registry'[id].present)
         => /\ registry'[id].successful_files = registry[id].successful_files
            /\ registry'[id].failed_files = registry[id].failed_files
            /\ registry'[id].results = registry[id].results]_vars


\* ErrorType value carried by an error; a plain Exception carries none.
error_kind(err) ==
    CASE err = "ContactInfoMissingError" -> "missing_required_fields"
      [] err = "TextExtractionError" -> "text_extraction_failed"
      [] err = "AIParsingError" -> "ai_parsing_failed"
      [] OTHER -> "none"

\* C13: when an attempt meets an exception that is not a ResumeParsingError,
\* in the core pipeline or in the strategy code around it, the retry loop
\* returns at once and the failure it returns has error kind unknown_error.
C13_UnexpectedAborts ==
    [][(rpc = "attempt" /\ rpc' # "attempt"
          /\ last_outcome' \in {"CoreException", "WrapperException"})
       => /\ rpc' = "returned"
          /\ ~retry_result'.success
          /\ error_kind(retry_result'.error) = "unknown_error"]_vars


\* The errors of the failed entries of the attempt log.
failure_kinds == {attempts[k].error : k \in {j \in 1..Len(attempts) : ~attempts[j].success}}

\* C14: the first attempt of a file uses the standard strategy; while every
\* failure so far is a missing-contact-fields failure the retries use
\* enhanced preprocessing, fallback extraction, manual extraction in that
\* order, and while every failure is an AI-parsing failure they use enhanced
\* preprocessing, fallback extraction, standard in that order.
C14_StrategyEscalation ==
    /\ Len(attempts) >= 1 => attempts[1].strategy = STANDARD
    /\ failure_kinds \subseteq {"ContactInfoMissingError"} =>
         \A k \in 2..Len(attempts) :
            attempts[k].strategy =
              <<ENHANCED_PREPROCESSING, FALLBACK_EXTRACTION, MANUAL_EXTRACTION>>[k - 1]
    /\ failure_kinds \subseteq {"AIParsingError"} =>
         \A k \in 2..Len(attempts) :
            attempts[k].strategy =
              <<ENHANCED_PREPROCESSING, FALLBACK_EXTRACTION, STANDARD>>[k - 1]

\* A file whose attempts all failed in AI parsing and whose last retry ran
\* the standard strategy again.
C14_AIEscalated ==
    /\ Len(attempts) = max_retries + 1
    /\ failure_kinds = {"AIParsingError"}
    /\ \A k \in 1..Len(attempts) : ~attempts[k].success
    /\ attempts[4].strategy = STANDARD


\* The strategy the loop computes for entry k of a log, from the error of the
\* entry before it.
strategy_of_entry(log, k) ==
    get_strategy_for_attempt(k - 1, IF k = 1 THEN "None" ELSE log[k - 1].error)

\* C15: when process_with_retry returns a failure after attempts that all
\* failed with a taxonomy error, the log it returns has exactly
\* max_retries + 1 entries, numbered 1..max_retries + 1 in order, each marked
\* failed and carrying the strategy that attempt ran and the error it raised;
\* the error returned is the one of the last attempt.
C15_ExhaustionLog ==
    (rpc = "returned" /\ ~retry_result.success /\ retry_result.error \in TaxonomyErrors) =>
        LET log == retry_result.attempts IN
        /\ Len(log) = max_retries + 1
        /\ \A k \in 1..Len(log) :
              /\ log[k].attempt_number = k
              /\ ~log[k].success
              /\ log[k].error \in TaxonomyErrors
              /\ log[k].strategy = strategy_of_entry(log, k)
        /\ retry_result.error = log[Len(log)].error
        /\ last_error = log[Len(log)].error

\* process_with_retry has returned after four failures of different kinds.
C15_MixedExhaustion ==
    /\ rpc = "returned"
    /\ ~retry_result.success
    /\ Len(retry_result.attempts) = max_retries + 1
    /\ retry_result.attempts[1].error = "TextExtractionError"
    /\ retry_result.attempts[2].error = "ContactInfoMissingError"
    /\ retry_result.attempts[4].error = "AIParsingError"


(***************************************************************************)
(* Properties of the per-record functions                                  *)
(***************************************************************************)

\* C16: when the pattern method and the context method find the same e-mail
\* address, the confidence of the merged result is
\* min(max(pattern confidence, context confidence) + 0.1, 1.0), whatever
\* phone numbers the two methods found (none, one, the same, different).
C16_SameEmailBonus ==
    (contact.pc = "done"
       /\ contact.regex_result.email # "None"
       /\ contact.regex_result.email = contact.context_result.email) =>
        contact.final_result.confidence =
            Min(Max(contact.regex_result.confidence,
                    contact.context_result.confidence) + 1, 10)

\* Both methods found the same e-mail address and the same phone number.
C16_SameEmailSamePhone ==
    /\ contact.pc = "done"
    /\ contact.regex_result.email # "None"
    /\ contact.regex_result.email = contact.context_result.email
    /\ contact.regex_result.phone # "None"
    /\ contact.regex_result.phone = contact.context_result.phone


\* The candidate has name, email, phone and skills.
has_required_fields(cand) == cand.name \notin {"null", ""} /\ missing_fields(cand) = {}

\* Jaccard similarity |A \cap B| / |A \cup B| >= 0.8.
jaccard_80(A, B) ==
    A \cup B # {} /\ 5 * Cardinality(A \cap B) >= 4 * Cardinality(A \cup B)

\* The record is a readable dict that matches the candidate on neither name,
\* email nor phone.
no_field_match(cand, rec) ==
    /\ rec.kind = "dict" /\ rec.name # "null"
    /\ rec.name # cand.name /\ rec.email # cand.email /\ rec.phone # cand.phone

\* C17: for a candidate with name, email, phone and skills and a history of
\* records that match it on neither name, email nor phone, the check flags
\* the candidate as duplicate exactly when some record's normalized skill set
\* has Jaccard similarity at least 0.8 with the candidate's (4 shared of 5 in
\* the union is flagged, 3 of 5 is not).
C17_SkillThreshold ==
    (uniq.pc = "done" /\ has_required_fields(uniq.parsed_data)
       /\ ~uniq.read_raises /\ Len(uniq.existing_resumes) >= 1
       /\ \A k \in 1..Len(uniq.existing_resumes) :
             no_field_match(uniq.parsed_data, uniq.existing_resumes[k])) =>
        /\ ~uniq.uniqueness_check.is_unique <=>
             \E k \in 1..Len(uniq.existing_resumes) :
                jaccard_80(uniq.parsed_data.skills, uniq.existing_resumes[k].skills)
        /\ ~uniq.uniqueness_check.is_unique =>
             uniq.uniqueness_check.reason = "duplicate_skills"

\* A candidate flagged for sharing 4 skills of the 5 in the union with a
\* record that matches it on no other field.
C17_FourOfFive ==
    /\ uniq.pc = "done" /\ has_required_fields(uniq.parsed_data)
    /\ Len(uniq.existing_resumes) >= 1
    /\ no_field_match(uniq.parsed_data, uniq.existing_resumes[1])
    /\ Cardinality(uniq.parsed_data.skills \cap uniq.existing_resumes[1].skills) = 4
    /\ Cardinality(uniq.parsed_data.skills \cup uniq.existing_resumes[1].skills) = 5
    /\ uniq.uniqueness_check.reason = "duplicate_skills"

\* C18: a file rejected for missing name, email, phone or skills
\* (reason missing_required_fields) is not given the per-file status
\* duplicate and is not counted in duplicate_files.
C18_MissingIsNotDuplicate ==
    (uniq.pc = "done" /\ uniq.uniqueness_check.reason = "missing_required_fields") =>
        /\ uniq.status # "duplicate"
        /\ uniq.duplicate_files = 0

\* The record cannot be interpreted: its parsed_data is not JSON, is not a
\* dict, or holds a null Name.
uninterpretable(rec) == rec.kind # "dict" \/ rec.name = "null"

\* C19: when the history cannot be read (get_all_resumes raises) or none of
\* its records can be interpreted, a candidate with all required fields is
\* accepted as unique and is neither rejected nor counted as a duplicate.
C19_HistoryFailureAllowsThrough ==
    (uniq.pc = "done" /\ has_required_fields(uniq.parsed_data)
       /\ \/ uniq.read_raises
          \/ /\ Len(uniq.existing_resumes) >= 1
             /\ \A k \in 1..Len(uniq.existing_resumes) :
                   uninterpretable(uniq.existing_resumes[k])) =>
        /\ uniq.uniqueness_check.is_unique
        /\ uniq.status # "duplicate"
        /\ uniq.duplicate_files = 0


\* C20: the tier _validate_parsed_data gives a record is poor if at least 2
\* of name, email, phone are missing or fewer than 5 fields are populated;
\* otherwise partial if exactly 1 essential is missing or at least 2 of
\* experience, skills, education are missing; otherwise good.  In particular
\* 2 or more missing essentials give poor whatever the other fields are.
C20_QualityPolicy ==
    validation.pc = "done" =>
        LET d == validation.parsed_data
            essentials_missing ==
               Cardinality({f \in {"Name", "Email", "Phone"} : d[f] \in {"", " "}})
            secondary_missing ==
               Cardinality({f \in {"Experience", "Skills", "Education"} :
                               d[f] \in {"absent", "empty", "text"}})
            populated == (3 - essentials_missing)
                           + Cardinality({f \in {"Experience", "Skills", "Education"} :
                                             d[f] \in {"list", "text"}})
                           + d.others
            tier == IF essentials_missing >= 2 \/ populated < 5 THEN "poor"
                    ELSE IF essentials_missing = 1 \/ secondary_missing >= 2
                      THEN "partial"
                    ELSE "good"
        IN /\ validation.validation_result.quality = tier
           /\ essentials_missing >= 2 => validation.validation_result.quality = "poor"

\* A record with all essentials and its skills, rated poor only for having
\* fewer than 5 populated fields.
C20_ForcedPoor ==
    /\ validation.pc = "done"
    /\ validation.validation_result.missing_essential = {}
    /\ validation.parsed_data.Skills = "list"
    /\ validation.validation_result.completeness_score < 5
    /\ validation.validation_result.quality = "poor"


(***************************************************************************)
(* Further properties of FileValidator (SpecRetry)                         *)
(***************************************************************************)

\* The leading bytes are the signature of a supported format other than the
\* one the extension declares.
signature_mismatch(f) ==
    /\ f.ext \in supported_types
    /\ detect_file_type(f) # "None"
    /\ detect_file_type(f) # f.ext

\* The same name and content features with another signature are accepted.
accepted_but_for_signature(f) ==
    \E m \in Magics : validate_file([f EXCEPT !.magic = m]).is_valid

\* C21: a file with a supported extension whose leading bytes are the
\* signature of a different supported format is not rejected on account of
\* that mismatch: if it would be accepted with another signature,
\* validate_file accepts it and process_resume goes on to the attempts.
C21_MismatchIsNoRejection ==
    [][(rpc = "validate" /\ signature_mismatch(file)
          /\ accepted_but_for_signature(file))
       => rpc' = "attempt"]_vars


\* C22 (as amended): validate_file applies its checks in the order metadata
\* filename, non-empty, size within the ceiling, extension supported, content
\* of the declared format, and the result is that of the first failing
\* check; is_metadata is true exactly for a metadata filename, whatever the
\* size of the file.
C22_MetadataFirst ==
    (rpc = "done" /\ ~result.has_attempts) =>
        LET v == validate_file(file) IN
        /\ ~v.is_valid
        /\ result.error = create_validation_error(v)
        /\ v.is_metadata <=> is_metadata_file(file)
        /\ v.error_message =
             IF is_metadata_file(file) THEN "metadata"
             ELSE IF file.size = 0 THEN "empty"
             ELSE IF file.size > SizeLimit THEN "too_large"
             ELSE IF file.ext \notin supported_types THEN "unsupported"
             ELSE "corrupted"

\* An empty file with a metadata-like name, rejected as a metadata file.
C22_EmptyMetadata ==
    /\ rpc = "done" /\ ~result.has_attempts
    /\ file.size = 0 /\ is_metadata_file(file)
    /\ result.error = "file_type_unsupported"

\* C22 (as stated): an empty or oversized file is rejected as empty or
\* oversized even when its name is metadata-like, and is_metadata is true
\* only for files that passed the emptiness and size checks.
C22_SizeChecksFirst ==
    (rpc = "done" /\ ~result.has_attempts
       /\ (file.size = 0 \/ file.size > SizeLimit)) =>
        /\ ~validate_file(file).is_metadata
        /\ validate_file(file).error_message \in {"empty", "too_large"}


\* C23 (as amended): when antiword, LibreOffice and pandoc are all
\* unavailable, _process_doc returns the byte-decoded text exactly when the
\* document could be written to the temporary directory and its bytes hold a
\* printable character; otherwise it raises.
C23_ByteDecodeFallback ==
    (doc.pc = "done" /\ doc.d.antiword = "absent" /\ doc.d.soffice = "absent"
       /\ doc.d.pandoc = "absent") =>
        /\ doc.returned \in {"bytes", "raise"}
        /\ doc.returned = "bytes" <=> (doc.d.tmp_ok /\ doc.d.printable)

\* A document with printable bytes returned through byte-decoding, no
\* converter being available.
C23_DecodedWithoutConverters ==
    /\ doc.pc = "done" /\ doc.d.antiword = "absent" /\ doc.d.soffice = "absent"
    /\ doc.d.pandoc = "absent" /\ doc.d.printable
    /\ doc.returned = "bytes"

\* C23 (as stated): with all external converters unavailable _process_doc
\* returns non-empty text and does not raise.
C23_NeverRaises ==
    (doc.pc = "done" /\ doc.d.antiword = "absent" /\ doc.d.soffice = "absent"
       /\ doc.d.pandoc = "absent") => doc.returned # "raise"


(***************************************************************************)
(* Further properties of the bulk workers                                  *)
(***************************************************************************)

\* C24: in a bulk job the ultra-fast worker runs the pipeline in order for
\* every file: text extraction starts only after format validation accepted
\* the file, and a record is handed to the batch save only after quality
\* classification and duplicate detection were run on it.
C24_PipelineOrder ==
    \A k \in 1..bulk.n :
       bulk.kind = "ultra" =>
         /\ "text_extraction" \in bulk.steps[k] =>
               "format_validation" \in bulk.steps[k]
         /\ (bulk.pc \in {"saving", "done"} /\ bulk.files[k] = "success") =>
               {"quality_classification", "duplicate_detection"} \subseteq bulk.steps[k]


(***************************************************************************)
(* Further properties of the uniqueness check (SpecUniqOrder)              *)
(***************************************************************************)

\* C25 (as amended): for a candidate with all required fields and a
\* readable history, the candidate is rejected exactly when some record
\* matches it on name, email, phone or skills, and the reason reported is
\* that of the first record in history order that matches on anything, with
\* the priority name, email, phone, skills inside that record.
C25_FirstMatchingRecord ==
    uniq.pc = "done" =>
        LET c == uniq.parsed_data
            h == uniq.existing_resumes
            matching == {k \in 1..Len(h) :
                           \/ h[k].name = c.name \/ h[k].email = c.email
                           \/ h[k].phone = c.phone
                           \/ jaccard_80(c.skills, h[k].skills)}
            first == CHOOSE k \in matching : \A m \in matching : k <= m
        IN /\ uniq.uniqueness_check.is_unique <=> matching = {}
           /\ matching # {} =>
                uniq.uniqueness_check.reason =
                  IF h[first].name = c.name THEN "duplicate_name"
                  ELSE IF h[first].email = c.email THEN "duplicate_email"
                  ELSE IF h[first].phone = c.phone THEN "duplicate_phone"
                  ELSE "duplicate_skills"

\* The first record matches the candidate's email only and a later record
\* matches its name: the reason reported is duplicate_email.
C25_EmailBeforeLaterName ==
    /\ uniq.pc = "done" /\ Len(uniq.existing_resumes) = 2
    /\ uniq.existing_resumes[1].name # uniq.parsed_data.name
    /\ uniq.existing_resumes[1].email = uniq.parsed_data.email
    /\ uniq.existing_resumes[2].name = uniq.parsed_data.name
    /\ uniq.uniqueness_check.reason = "duplicate_email"

\* C25 (as stated): the reason is duplicate_name if any history record
\* matches the name; otherwise duplicate_email if any matches the email;
\* otherwise duplicate_phone if any matches the phone; otherwise
\* duplicate_skills if any has Jaccard >= 0.8, whatever the order of the
\* records.
C25_PriorityOverHistory ==
    uniq.pc = "done" =>
        LET c == uniq.parsed_data
            h == uniq.existing_resumes
            K == 1..Len(h)
        IN uniq.uniqueness_check.reason =
             IF \E k \in K : h[k].name = c.name THEN "duplicate_name"
             ELSE IF \E k \in K : h[k].email = c.email THEN "duplicate_email"
             ELSE IF \E k \in K : h[k].phone = c.phone THEN "duplicate_phone"
             ELSE IF \E k \in K : jaccard_80(c.skills, h[k].skills)
               THEN "duplicate_skills"
             ELSE "unique_resume"


(***************************************************************************)
(* Status reads of bulk jobs (SpecPool)                                    *)
(***************************************************************************)

\* C26: in every job snapshot a status read returns, progress equals
\* processed_files / total_files * 100, and a completed job reports
\* processed_files equal to total_files and progress 100.
C26_SnapshotProgress ==
    \A id \in JobIds :
        registry[id].present =>
            LET s == get_bulk_job_status(id)
                t == get_job_status(id)
            IN /\ s.progress = progress_percentage_of(s.processed_files,
                                                      Max(1, s.total_files))
               /\ s.status = "completed" =>
                    /\ s.processed_files = s.total_files
                    /\ s.progress = 10000
               /\ t.status = "completed" => t.processed_files = t.total_files


(***************************************************************************)
(* The batch list and the counters of the sequential worker (Spec)         *)
(***************************************************************************)

\* C27: a file is in batch_data_to_save exactly when its per-file status is
\* success or partial_success, so no failed or duplicate file is persisted,
\* and successful_files is the number of files whose status is neither
\* failed nor duplicate.
C27_BatchIffSuccess ==
    bulk.kind = "seq" =>
        /\ bulk.batch = Count(bulk.results, {"success", "partial_success"})
        /\ bulk.successful = Count(bulk.results, {"success", "partial_success"})


\* C28: after every registry update of the sequential worker, the final
\* update and the cases of unreadable archives and of cancellation included,
\* successful_files + failed_files + duplicate_files equals processed_files
\* in the job's registry entry.
C28_CounterConservation ==
    (bulk.kind = "seq" /\ (reup.pc = "idle" \/ reup.job_id # bulk.job_id)) =>
        LET job == registry[bulk.job_id] IN
        job.successful_files + job.failed_files + job.duplicate_files
          = job.processed_files


(***************************************************************************)
(* The Redis queue (SpecQueue)                                             *)
(***************************************************************************)

\* C29: when cancel_job returns True for a job, the stored status of the
\* job is cancelled from then on and no record is saved for it afterwards;
\* cancel_job does not return True for a job that is already completed or
\* failed.
C29_CancelIsFinal ==
    [][\A j \in QueueJobs :
          /\ queue'.cancelled_from[j] \notin {"completed", "failed"}
          /\ queue.cancelled_from[j] # "none" =>
               /\ queue'.job_status[j] = "cancelled"
               /\ j \in queue'.saved => j \in queue.saved]_vars

\* C30: once the stored status of a job has been processing, completed or
\* failed it is never afterwards queued, and the processor never dequeues a
\* job whose status hash does not exist yet.
C30_StatusNeverBackwards ==
    [][\A j \in QueueJobs :
          /\ queue.job_status[j] \in {"processing", "completed", "failed"} =>
               queue'.job_status[j] # "queued"
          /\ (queue.worker.pc = "idle" /\ queue'.worker.job = j) =>
               queue.job_status[j] # "none"]_vars

=============================================================================
